---- MODULE Spec2Model ----
(***************************************************************************)
(* The quic transport connection handle                                    *)
(* (rs/p2p/quic_transport/src/connection_handle.rs): the two conversions   *)
(* into TransportError, and ConnectionHandle::rpc / ConnectionHandle::push *)
(* as sequences of steps separated by their await points, run by several   *)
(* concurrent calls on handles that share one quinn connection.            *)
(* Then get_upgrade_info (rs/sns/governance/src/sns_upgrade.rs) and the     *)
(* neuron store exercised by rs/nns/governance/.../neurons_tests.rs, each   *)
(* with a specification of its own.                                        *)
(***************************************************************************)
EXTENDS Integers, Sequences, FiniteSets, TLC

(* ------------------------------ bounds -------------------------------- *)

\* number of rpc/push calls that may be started (and run concurrently)
MaxCalls == 2
\* longest request body, in bytes
MaxBodyLen == 1

(* ------------------------- values of the program ----------------------- *)

CallIds == 1..MaxCalls

\* The node this code runs on (the local endpoint of the connection, the one
\* that initiates rpc and push calls), and the nodes a handle can stand for.
LocalNode == "n1"
RemotePeers == {"n2", "n3"}
NodeIds == {LocalNode} \cup RemotePeers
\* an extensions map without a NodeId entry
NoId == "none"

ByteVals == {0, 1}
BoundedSeq(S, n) == UNION {[1..k -> S] : k \in 0..n}
Bodies == BoundedSeq(ByteVals, MaxBodyLen)

REQUEST_TYPE_RPC == "rpc"
REQUEST_TYPE_PUSH == "push"
ERROR_TYPE_OPEN == "open"
ERROR_TYPE_WRITE == "write"
ERROR_TYPE_FINISH == "finish"
ERROR_TYPE_READ == "read"

RequestTypes == {REQUEST_TYPE_RPC, REQUEST_TYPE_PUSH}
ErrorTypes == {ERROR_TYPE_OPEN, ERROR_TYPE_WRITE, ERROR_TYPE_FINISH, ERROR_TYPE_READ}
\* the stages of each call type, in program order
StagesOf(t) ==
  IF t = REQUEST_TYPE_RPC
    THEN <<ERROR_TYPE_OPEN, ERROR_TYPE_WRITE, ERROR_TYPE_FINISH, ERROR_TYPE_READ>>
    ELSE <<ERROR_TYPE_OPEN, ERROR_TYPE_WRITE, ERROR_TYPE_FINISH>>

(* --------------------- failure causes of the transport ------------------ *)

\* quinn::ConnectionError, the variants matched at lines 43-65
ConnectionErrors ==
  {"VersionMismatch", "TransportError", "Reset", "TimedOut",
   "ConnectionClosed", "ApplicationClosed", "LocallyClosed"}

\* quinn::WriteError, the variants matched at lines 24-37; ConnectionLost
\* carries the ConnectionError that ended the connection
NoInner == "-"
WriteErr(e, inner) == [e |-> e, inner |-> inner]
StreamWriteErrors ==
  {WriteErr("Stopped", NoInner), WriteErr("UnknownStream", NoInner),
   WriteErr("ZeroRttRejected", NoInner)}
WriteErrors ==
  StreamWriteErrors \cup {WriteErr("ConnectionLost", ce) : ce \in ConnectionErrors}

(* ----------------------------- TransportError --------------------------- *)

\* io::ErrorKind values used by the conversions
KindConnectionReset == "ConnectionReset"
KindConnectionRefused == "ConnectionRefused"
KindUnsupported == "Unsupported"
KindTimedOut == "TimedOut"
KindOther == "Other"

NoDesc == <<"none">>
NoCategory == "-"
DescOf(x) == <<"to_string", x>>
Literal(s) == <<"literal", s>>

Io(kind, desc) == [kind |-> "Io", category |-> kind, desc |-> desc]
Disconnected(desc) == [kind |-> "Disconnected", category |-> NoCategory, desc |-> desc]

\* (variant: rejected zero-RTT data filed under connection-reset)
FromWriteErrorZeroRttAsReset(value) ==
  CASE value.e = "Stopped" -> Io(KindConnectionReset, DescOf(value.e))
    [] value.e = "ConnectionLost" -> Disconnected(DescOf(value.inner))
    [] value.e = "UnknownStream" -> Io(KindConnectionReset, Literal("unknown quic stream"))
    [] value.e = "ZeroRttRejected" -> Io(KindConnectionReset, Literal("zero rtt rejected"))

\* (variant: a stream the peer stopped reported as the loss of the connection)
FromWriteErrorStoppedDisconnects(value) ==
  CASE value.e = "Stopped" -> Disconnected(DescOf(value.e))
    [] value.e = "ConnectionLost" -> Disconnected(DescOf(value.inner))
    [] value.e = "UnknownStream" -> Io(KindConnectionReset, Literal("unknown quic stream"))
    [] value.e = "ZeroRttRejected" -> Io(KindConnectionRefused, Literal("zero rtt rejected"))

\* impl From<quinn::WriteError> for TransportError
FromWriteError(value) ==
  CASE value.e = "Stopped" -> Io(KindConnectionReset, DescOf(value.e))
    [] value.e = "ConnectionLost" -> Disconnected(DescOf(value.inner))
    [] value.e = "UnknownStream" -> Io(KindConnectionReset, Literal("unknown quic stream"))
    [] value.e = "ZeroRttRejected" -> Io(KindConnectionRefused, Literal("zero rtt rejected"))

\* (variant: a match with a catch-all arm in place of the last three arms)
FromConnectionErrorDefaultArm(value) ==
  CASE value = "VersionMismatch" -> Io(KindUnsupported, Literal("Quic version mismatch"))
    [] value = "TransportError" -> Io(KindUnsupported, DescOf(value))
    [] value = "Reset" -> Io(KindConnectionReset, NoDesc)
    [] value = "TimedOut" -> Io(KindTimedOut, NoDesc)
    [] OTHER -> [kind |-> "Unmapped", category |-> NoCategory, desc |-> NoDesc]

\* (variant: a local close reported as an Io error)
FromConnectionErrorLocalCloseIo(value) ==
  CASE value = "VersionMismatch" -> Io(KindUnsupported, Literal("Quic version mismatch"))
    [] value = "TransportError" -> Io(KindUnsupported, DescOf(value))
    [] value = "Reset" -> Io(KindConnectionReset, NoDesc)
    [] value = "TimedOut" -> Io(KindTimedOut, NoDesc)
    [] value = "ConnectionClosed" -> Disconnected(DescOf(value))
    [] value = "ApplicationClosed" -> Disconnected(DescOf(value))
    [] value = "LocallyClosed" -> Io(KindOther, Literal("Connection closed locally"))

\* impl From<quinn::ConnectionError> for TransportError
FromConnectionError(value) ==
  CASE value = "VersionMismatch" -> Io(KindUnsupported, Literal("Quic version mismatch"))
    [] value = "TransportError" -> Io(KindUnsupported, DescOf(value))
    [] value = "Reset" -> Io(KindConnectionReset, NoDesc)
    [] value = "TimedOut" -> Io(KindTimedOut, NoDesc)
    [] value = "ConnectionClosed" -> Disconnected(DescOf(value))
    [] value = "ApplicationClosed" -> Disconnected(DescOf(value))
    [] value = "LocallyClosed" -> Disconnected(Literal("Connection closed locally"))

(* ------------------------------ framing --------------------------------- *)

\* largest frame the length-delimited reader accepts (the codec's default,
\* scaled to the model's message sizes)
MaxFrameLen == 4

NoMessage == <<>>
Message(ext, body) == [ext |-> ext, body |-> body]

\* utils::write_request: the message as one contiguous buffer (metadata, body)
Serialize(msg) == <<msg.ext>> \o msg.body
\* utils::read_response: the buffer back into a message
Deserialize(buf) == Message(Head(buf), Tail(buf))

\* length-delimited writer: the length, then that many bytes
EncodeFrame(buf) == [len |-> Len(buf), data |-> buf]
\* length-delimited reader: "FrameTooBig", "UnexpectedEof" or "ok"
FrameStatus(frame) ==
  IF frame.len > MaxFrameLen THEN "FrameTooBig"
  ELSE IF Len(frame.data) < frame.len THEN "UnexpectedEof"
  ELSE "ok"
DecodeFrame(frame) == SubSeq(frame.data, 1, frame.len)

\* what the remote peer may put on the read side of a bidirectional stream
PeerBehaviours == {"echo", "answer", "oversize", "truncated"}
PeerFrame(beh, received) ==
  CASE beh = "echo" -> received
    [] beh = "answer" ->
         EncodeFrame(Serialize(Message(NoId, Deserialize(DecodeFrame(received)).body)))
    [] beh = "oversize" -> [len |-> MaxFrameLen + 1, data |-> <<>>]
    [] beh = "truncated" -> [len |-> received.len + 1, data |-> received.data]

(* ------------------------------- state ---------------------------------- *)

VARIABLES
  handles,          \* the ConnectionHandle values that exist (the first, then its clones)
  connection,       \* the shared quinn connection: "up", or the ConnectionError that ended it
  streams,          \* the streams opened on the connection, per call that opened them
  calls,            \* the rpc/push calls: position, request, stream, outcome
  requests_total,   \* metrics.connection_handle_requests_total, by request type
  errors_total,     \* metrics.connection_handle_errors_total, by (request type, error type)
  upgrade,          \* one call of get_upgrade_info: inputs, position, outcome
  store,            \* the neuron store: the neuron stored under each id, if any
  last              \* the last operation on the neuron store and its result

transportVars == <<handles, connection, streams, calls, requests_total, errors_total>>
vars == <<handles, connection, streams, calls, requests_total, errors_total,
          upgrade, store, last>>

\* number of ConnectionHandle values (clones included)
MaxHandles == 2

TheConnection == "conn"
ErrorLabels == RequestTypes \X ErrorTypes

NoCause == WriteErr("-", NoInner)
NoResult == [kind |-> "None", category |-> NoCategory, desc |-> NoDesc]
OkResult == [kind |-> "Ok", category |-> NoCategory, desc |-> NoDesc]

IdleCall ==
  [pc |-> "idle", type |-> "-", handle |-> 0, request |-> Message(NoId, <<>>),
   stream |-> 0, stages |-> <<>>, failed |-> "-", cause |-> NoCause,
   result |-> NoResult, response |-> NoMessage, errIncs |-> 0,
   enteredClosed |-> FALSE, enteredAfter |-> {}]

\* get_upgrade_info has not been called; no neuron store is in use
NoOutcome == [kind |-> "None", error_type |-> "-", value |-> <<>>, message |-> "-"]
NoUpgrade ==
  [pc |-> "idle", sns_canisters |-> <<>>, current_version |-> <<>>,
   next_version |-> <<>>, canister_type |-> "-", canister_id |-> <<>>,
   wasm_hash |-> -1, get_wasm_calls |-> 0,
   reply |-> [is |-> "-", canister_type |-> "-", wasm |-> <<>>],
   outcome |-> NoOutcome]
NoStore == <<>>
NoOperation == [op |-> "-"]

\* ConnectionHandle::new
NewHandle(peer_id, conn) == [peer_id |-> peer_id, connection |-> conn]

\* a handle for one of the peers P, on a connection that is up
InitOf(P) ==
  /\ handles \in {<<NewHandle(p, TheConnection)>> : p \in P}
  /\ connection = "up"
  /\ streams = [c \in CallIds |-> <<>>]
  /\ calls = [c \in CallIds |-> IdleCall]
  /\ requests_total = [t \in RequestTypes |-> 0]
  /\ errors_total = [l \in ErrorLabels |-> 0]
  /\ upgrade = NoUpgrade
  /\ store = NoStore
  /\ last = NoOperation

(* ------------------------------ metrics --------------------------------- *)

\* (variant: the rpc label is counted whatever the call type)
RequestsIncRpcLabel(m, t) == [m EXCEPT ![REQUEST_TYPE_RPC] = @ + 1]

\* connection_handle_requests_total.with_label_values(&[t]).inc()
RequestsInc(m, t) == [m EXCEPT ![t] = @ + 1]

\* (variant: the stage's counter is incremented for both request types)
ErrorsIncBothTypes(m, t, stage) ==
  [l \in ErrorLabels |-> IF l[2] = stage THEN m[l] + 1 ELSE m[l]]

\* connection_handle_errors_total.with_label_values(&[t, stage]) in the map_err
\* closures: the labelled counter is looked up and nothing is done with it
ErrorsWithLabelValues(m, t, stage) == m

RECURSIVE SumOver(_, _)
SumOver(m, S) ==
  IF S = {} THEN 0
  ELSE LET x == CHOOSE y \in S : TRUE IN m[x] + SumOver(m, S \ {x})
\* the sum of all error counters
ErrorsSum(m) == SumOver(m, ErrorLabels)

(* --------------------------- steps of a call ---------------------------- *)

\* (variant: a clone that comes with a connection of its own)
CloneOpensConnection(h) ==
  /\ h \in 1..Len(handles)
  /\ Len(handles) < MaxHandles
  /\ handles' = Append(handles, NewHandle(handles[h].peer_id, "conn2"))
  /\ UNCHANGED <<connection, streams, calls, requests_total, errors_total>>

\* #[derive(Clone)]: a clone holds the same peer_id and the same connection
Clone(h) ==
  /\ h \in 1..Len(handles)
  /\ Len(handles) < MaxHandles
  /\ handles' = Append(handles, handles[h])
  /\ UNCHANGED <<connection, streams, calls, requests_total, errors_total>>

\* the kinds of error that calls had returned by now (recorded at a call's
\* entry for the properties; the code keeps no such state)
ErrorsReturned ==
  {calls[d].result.kind : d \in CallIds} \cap {"Io", "Disconnected"}

\* (variant: the request goes on as the caller gave it)
EnterWithoutIdentity(c, t, h, request) ==
  /\ calls[c].pc = "idle"
  /\ IF c = 1 THEN TRUE ELSE calls[c - 1].pc # "idle"
  /\ requests_total' = RequestsInc(requests_total, t)
  /\ calls' = [calls EXCEPT ![c] =
       [@ EXCEPT !.pc = "open", !.type = t, !.handle = h, !.request = request,
                 !.enteredClosed = (connection # "up"),
                 !.enteredAfter = ErrorsReturned]]
  /\ UNCHANGED <<handles, connection, streams, errors_total>>

\* (variant: a call on a connection that has ended returns at once)
EnterChecksConnection(c, t, h, request) ==
  /\ calls[c].pc = "idle"
  /\ IF c = 1 THEN TRUE ELSE calls[c - 1].pc # "idle"
  /\ IF connection = "up"
       THEN /\ requests_total' = RequestsInc(requests_total, t)
            /\ calls' = [calls EXCEPT ![c] =
                 [@ EXCEPT !.pc = "open", !.type = t, !.handle = h,
                           !.request = Message(handles[h].peer_id, request.body)]]
       ELSE /\ requests_total' = requests_total
            /\ calls' = [calls EXCEPT ![c] =
                 [@ EXCEPT !.pc = "done", !.type = t, !.handle = h,
                           !.result = FromConnectionError(connection),
                           !.enteredClosed = TRUE]]
  /\ UNCHANGED <<handles, connection, streams, errors_total>>

\* rpc lines 93-99 and push lines 143-149: count the request, insert the
\* handle's peer_id into the request's extensions; the call then awaits the open
\* (enteredClosed records, for the properties, whether the connection had ended
\* by then; the code does not look)
Enter(c, t, h, request) ==
  /\ calls[c].pc = "idle"
  /\ IF c = 1 THEN TRUE ELSE calls[c - 1].pc # "idle"
  /\ requests_total' = RequestsInc(requests_total, t)
  /\ calls' = [calls EXCEPT ![c] =
       [@ EXCEPT !.pc = "open", !.type = t, !.handle = h,
                 !.request = Message(handles[h].peer_id, request.body),
                 !.enteredClosed = (connection # "up"),
                 !.enteredAfter = ErrorsReturned]]
  /\ UNCHANGED <<handles, connection, streams, errors_total>>

\* (variant: the error is recorded and the call does not return)
FailWithoutReturn(c, stage, cause, err) ==
  /\ errors_total' = errors_total
  /\ calls' = [calls EXCEPT ![c] =
       [@ EXCEPT !.stages = Append(@, stage), !.failed = stage,
                 !.cause = cause, !.result = err]]

\* a map_err closure followed by `?`: the error counter is looked up, the call
\* returns the error
Fail(c, stage, cause, err) ==
  /\ errors_total' = ErrorsWithLabelValues(errors_total, calls[c].type, stage)
  /\ calls' = [calls EXCEPT ![c] =
       [@ EXCEPT !.pc = "done", !.stages = Append(@, stage), !.failed = stage,
                 !.cause = cause, !.result = err,
                 !.errIncs = @ + ErrorsSum(errors_total') - ErrorsSum(errors_total)]]

NewStream(kind, conn) ==
  [kind |-> kind, conn |-> conn, sent |-> <<>>, finished |-> FALSE,
   consumed |-> FALSE, resp |-> <<>>]
\* the stream the call holds
StreamOf(c) == streams[c][calls[c].stream]

\* a stage that resolved with success: the call goes on to the next await
Proceed(c, stage, next) ==
  /\ calls' = [calls EXCEPT ![c] =
       [@ EXCEPT !.pc = next, !.stages = Append(@, stage)]]
  /\ UNCHANGED errors_total

\* the last stage resolved with success: Ok(()) of push, Ok(response) of rpc
Return(c, stage, response) ==
  /\ calls' = [calls EXCEPT ![c] =
       [@ EXCEPT !.pc = "done", !.stages = Append(@, stage),
                 !.result = OkResult, !.response = response]]
  /\ UNCHANGED errors_total

\* (variant: once a call has returned an error no stream is opened)
OpenRefusesAfterError(c, t, kind) ==
  /\ calls[c].pc = "open"
  /\ calls[c].type = t
  /\ IF connection = "up" /\ ErrorsReturned = {}
       THEN /\ streams' = [streams EXCEPT ![c] =
                 Append(@, NewStream(kind, handles[calls[c].handle].connection))]
            /\ calls' = [calls EXCEPT ![c] =
                 [@ EXCEPT !.pc = "write", !.stream = Len(streams[c]) + 1,
                           !.stages = Append(@, ERROR_TYPE_OPEN)]]
            /\ UNCHANGED errors_total
       ELSE /\ Fail(c, ERROR_TYPE_OPEN, WriteErr("LocallyClosed", NoInner),
                    FromConnectionError("LocallyClosed"))
            /\ UNCHANGED streams
  /\ UNCHANGED <<handles, connection, requests_total>>

\* connection.open_bi() / open_uni() resolve: a new stream of the connection,
\* or the ConnectionError that ended the connection, converted by `?`
Open(c, t, kind) ==
  /\ calls[c].pc = "open"
  /\ calls[c].type = t
  /\ IF connection = "up"
       THEN /\ streams' = [streams EXCEPT ![c] =
                 Append(@, NewStream(kind, handles[calls[c].handle].connection))]
            /\ calls' = [calls EXCEPT ![c] =
                 [@ EXCEPT !.pc = "write", !.stream = Len(streams[c]) + 1,
                           !.stages = Append(@, ERROR_TYPE_OPEN)]]
            /\ UNCHANGED errors_total
       ELSE /\ Fail(c, ERROR_TYPE_OPEN, WriteErr(connection, NoInner),
                    FromConnectionError(connection))
            /\ UNCHANGED streams
  /\ UNCHANGED <<handles, connection, requests_total>>

\* how an awaited write or finish can resolve in the connection's state:
\* NoCause (success) or a stream failure while the connection is up,
\* ConnectionLost once it has ended
WriteOutcomesNow ==
  IF connection = "up" THEN {NoCause} \cup StreamWriteErrors
  ELSE {WriteErr("ConnectionLost", connection)}

\* the io::Error write_request returns for a failed write
IoErrorOfWrite(cause) == Io(KindOther, DescOf(cause.e))

\* (variant: the request goes onto the stream the first call opened)
WriteOnFirstStream(c, t, outcome) ==
  /\ calls[c].pc = "write"
  /\ calls[c].type = t
  /\ outcome \in WriteOutcomesNow
  /\ IF outcome = NoCause
       THEN /\ streams' =
                 IF streams[1] # <<>>
                   THEN [streams EXCEPT ![1][1].sent =
                           Append(@, EncodeFrame(Serialize(calls[c].request)))]
                   ELSE [streams EXCEPT ![c][calls[c].stream].sent =
                           Append(@, EncodeFrame(Serialize(calls[c].request)))]
            /\ Proceed(c, ERROR_TYPE_WRITE, "finish")
       ELSE /\ Fail(c, ERROR_TYPE_WRITE, outcome, IoErrorOfWrite(outcome))
            /\ UNCHANGED streams
  /\ UNCHANGED <<handles, connection, requests_total>>

\* (variant: a failed write is converted by From<quinn::WriteError>)
WriteConvertsCause(c, t, outcome) ==
  /\ calls[c].pc = "write"
  /\ calls[c].type = t
  /\ outcome \in WriteOutcomesNow
  /\ IF outcome = NoCause
       THEN /\ streams' = [streams EXCEPT ![c][calls[c].stream].sent =
                 Append(@, EncodeFrame(Serialize(calls[c].request)))]
            /\ Proceed(c, ERROR_TYPE_WRITE, "finish")
       ELSE /\ Fail(c, ERROR_TYPE_WRITE, outcome, FromWriteError(outcome))
            /\ UNCHANGED streams
  /\ UNCHANGED <<handles, connection, requests_total>>

\* write_request(&mut send_stream, request) resolves with `outcome`; a failure
\* is wrapped as TransportError::Io { error: e }
Write(c, t, outcome) ==
  /\ calls[c].pc = "write"
  /\ calls[c].type = t
  /\ outcome \in WriteOutcomesNow
  /\ IF outcome = NoCause
       THEN /\ streams' = [streams EXCEPT ![c][calls[c].stream].sent =
                 Append(@, EncodeFrame(Serialize(calls[c].request)))]
            /\ Proceed(c, ERROR_TYPE_WRITE, "finish")
       ELSE /\ Fail(c, ERROR_TYPE_WRITE, outcome, IoErrorOfWrite(outcome))
            /\ UNCHANGED streams
  /\ UNCHANGED <<handles, connection, requests_total>>

\* (variant: a failed finish is awaited again)
FinishAgainOnFailure(c, t, outcome, next) ==
  /\ calls[c].pc = "finish"
  /\ calls[c].type = t
  /\ outcome \in WriteOutcomesNow
  /\ IF outcome = NoCause
       THEN /\ streams' = [streams EXCEPT ![c][calls[c].stream].finished = TRUE]
            /\ IF next = "done"
                 THEN Return(c, ERROR_TYPE_FINISH, NoMessage)
                 ELSE Proceed(c, ERROR_TYPE_FINISH, next)
       ELSE UNCHANGED <<calls, errors_total, streams>>
  /\ UNCHANGED <<handles, connection, requests_total>>

\* send_stream.get_mut().finish() resolves with `outcome`; a failure is
\* converted by `?` (From<quinn::WriteError>); after a success the call goes on
\* to `next`, or returns Ok(()) when nothing is left to do
Finish(c, t, outcome, next) ==
  /\ calls[c].pc = "finish"
  /\ calls[c].type = t
  /\ outcome \in WriteOutcomesNow
  /\ IF outcome = NoCause
       THEN /\ streams' = [streams EXCEPT ![c][calls[c].stream].finished = TRUE]
            /\ IF next = "done"
                 THEN Return(c, ERROR_TYPE_FINISH, NoMessage)
                 ELSE Proceed(c, ERROR_TYPE_FINISH, next)
       ELSE /\ Fail(c, ERROR_TYPE_FINISH, outcome, FromWriteError(outcome))
            /\ UNCHANGED streams
  /\ UNCHANGED <<handles, connection, requests_total>>

\* the io::Error read_response returns for a failed read
IoErrorOfRead(cause) == Io(KindOther, DescOf(cause.e))

\* how the awaited read of the response can resolve: with the frame that has
\* arrived (NoCause, or the reader's refusal of it), with the peer's reset of
\* the stream, or with ConnectionLost once the connection has ended
ReadOutcomesNow(s) ==
  (IF connection = "up" THEN {WriteErr("StreamReset", NoInner)}
   ELSE {WriteErr("ConnectionLost", connection)})
  \cup (IF s.resp = <<>> THEN {}
        ELSE IF FrameStatus(Head(s.resp)) = "ok" THEN {NoCause}
        ELSE {WriteErr(FrameStatus(Head(s.resp)), NoInner)})

(* ------------------------------- rpc ------------------------------------ *)

\* lines 93-99
RpcEnter(c, h, request) == Enter(c, REQUEST_TYPE_RPC, h, request)

\* lines 101-111
RpcOpen(c) == Open(c, REQUEST_TYPE_RPC, "bi")

\* (variant: after the write the call awaits the response, the finish left out)
RpcWriteThenReads(c, outcome) ==
  /\ calls[c].pc = "write"
  /\ calls[c].type = REQUEST_TYPE_RPC
  /\ outcome \in WriteOutcomesNow
  /\ IF outcome = NoCause
       THEN /\ streams' = [streams EXCEPT ![c][calls[c].stream].sent =
                 Append(@, EncodeFrame(Serialize(calls[c].request)))]
            /\ Proceed(c, ERROR_TYPE_WRITE, "read")
       ELSE /\ Fail(c, ERROR_TYPE_WRITE, outcome, IoErrorOfWrite(outcome))
            /\ UNCHANGED streams
  /\ UNCHANGED <<handles, connection, requests_total>>

\* lines 113-120
RpcWrite(c, outcome) == Write(c, REQUEST_TYPE_RPC, outcome)

\* lines 122-127, then the call awaits the response
RpcFinish(c, outcome) == Finish(c, REQUEST_TYPE_RPC, outcome, "read")

\* (variant: this node's own identity goes into the response's extensions)
RpcResponseWithLocalNode(c, frame) ==
  LET msg == Deserialize(DecodeFrame(frame))
  IN  <<Message(LocalNode, msg.body)>>

\* (variant: a fresh response, without the body that was read)
RpcResponseWithoutBody(c, frame) ==
  <<Message(handles[calls[c].handle].peer_id, <<>>)>>

\* (variant: the response is handed on as it was read)
RpcResponseAsRead(c, frame) == <<Deserialize(DecodeFrame(frame))>>

\* lines 136-139: the handle's peer_id goes into the response's extensions
RpcResponse(c, frame) ==
  LET msg == Deserialize(DecodeFrame(frame))
  IN  <<Message(handles[calls[c].handle].peer_id, msg.body)>>

\* the stream a call holds, or the one the first call opened when there is one
FirstStreamOr(c) == IF streams[1] # <<>> THEN streams[1][1] ELSE StreamOf(c)
\* (variant: the response is read from the stream the first call opened)
RpcReadFirstStream(c, outcome) ==
  /\ calls[c].pc = "read"
  /\ calls[c].type = REQUEST_TYPE_RPC
  /\ outcome \in ReadOutcomesNow(FirstStreamOr(c))
  /\ IF outcome = NoCause
       THEN Return(c, ERROR_TYPE_READ,
                   RpcResponse(c, Head(FirstStreamOr(c).resp)))
       ELSE Fail(c, ERROR_TYPE_READ, outcome, IoErrorOfRead(outcome))
  /\ UNCHANGED <<handles, connection, streams, requests_total>>

\* (variant: a failed read reported as the loss of the connection)
RpcReadFailureDisconnects(c, outcome) ==
  /\ calls[c].pc = "read"
  /\ calls[c].type = REQUEST_TYPE_RPC
  /\ outcome \in ReadOutcomesNow(StreamOf(c))
  /\ IF outcome = NoCause
       THEN Return(c, ERROR_TYPE_READ,
                   RpcResponse(c, Head(StreamOf(c).resp)))
       ELSE Fail(c, ERROR_TYPE_READ, outcome, Disconnected(DescOf(outcome.e)))
  /\ UNCHANGED <<handles, connection, streams, requests_total>>

\* lines 129-139: read_response resolves with `outcome`; a failure is wrapped
\* as TransportError::Io { error: e }
RpcRead(c, outcome) ==
  /\ calls[c].pc = "read"
  /\ calls[c].type = REQUEST_TYPE_RPC
  /\ outcome \in ReadOutcomesNow(StreamOf(c))
  /\ IF outcome = NoCause
       THEN Return(c, ERROR_TYPE_READ,
                   RpcResponse(c, Head(StreamOf(c).resp)))
       ELSE Fail(c, ERROR_TYPE_READ, outcome, IoErrorOfRead(outcome))
  /\ UNCHANGED <<handles, connection, streams, requests_total>>

(* ------------------------------- push ----------------------------------- *)

\* lines 143-149
PushEnter(c, h, request) == Enter(c, REQUEST_TYPE_PUSH, h, request)

\* lines 151-159
PushOpen(c) == Open(c, REQUEST_TYPE_PUSH, "uni")

\* lines 161-168
PushWrite(c, outcome) == Write(c, REQUEST_TYPE_PUSH, outcome)

\* (variant: Ok(()) only once the peer has read the message)
PushFinishAwaitsPeer(c, outcome) ==
  /\ calls[c].pc = "finish"
  /\ outcome = NoCause => StreamOf(c).consumed
  /\ Finish(c, REQUEST_TYPE_PUSH, outcome, "done")

\* lines 170-177: after the finish, Ok(())
PushFinish(c, outcome) == Finish(c, REQUEST_TYPE_PUSH, outcome, "done")

(* --------------------- the connection and the peer ---------------------- *)

\* the connection ends, for one of the reasons quinn reports
ConnectionEnds(ce) ==
  /\ connection = "up"
  /\ connection' = ce
  /\ UNCHANGED <<handles, streams, calls, requests_total, errors_total>>

\* the remote application reads what was written on a unidirectional stream
\* (stream i of those call c opened)
PeerConsume(c, i) ==
  /\ i \in 1..Len(streams[c])
  /\ streams[c][i].kind = "uni"
  /\ streams[c][i].sent # <<>>
  /\ ~streams[c][i].consumed
  /\ streams' = [streams EXCEPT ![c][i].consumed = TRUE]
  /\ UNCHANGED <<handles, connection, calls, requests_total, errors_total>>

\* the remote application reads the request written on a bidirectional stream
\* and answers on it
PeerRespond(c, i, beh) ==
  /\ i \in 1..Len(streams[c])
  /\ connection = "up"
  /\ streams[c][i].kind = "bi"
  /\ streams[c][i].sent # <<>>
  /\ ~streams[c][i].consumed
  /\ streams' = [streams EXCEPT ![c][i].consumed = TRUE,
                                ![c][i].resp = <<PeerFrame(beh, Head(streams[c][i].sent))>>]
  /\ UNCHANGED <<handles, connection, calls, requests_total, errors_total>>

(* --------------------------- specification ------------------------------ *)

RequestsOf(B) == {Message(NoId, b) : b \in B}
\* every resolution of an awaited write, finish or read
AllOutcomes ==
  {NoCause} \cup WriteErrors
  \cup {WriteErr(e, NoInner) : e \in {"StreamReset", "FrameTooBig", "UnexpectedEof"}}

\* the steps with calls C, request bodies B, connection endings CE, resolutions
\* O of the awaits and peer behaviours PB
NextOf(C, B, CE, O, PB) ==
  \/ \E c \in C, h \in 1..Len(handles), r \in RequestsOf(B) : RpcEnter(c, h, r)
       /\ UNCHANGED <<upgrade, store, last>>
  \/ \E c \in C : RpcOpen(c)
       /\ UNCHANGED <<upgrade, store, last>>
  \/ \E c \in C, o \in O : RpcWrite(c, o)
       /\ UNCHANGED <<upgrade, store, last>>
  \/ \E c \in C, o \in O : RpcFinish(c, o)
       /\ UNCHANGED <<upgrade, store, last>>
  \/ \E c \in C, o \in O : RpcRead(c, o)
       /\ UNCHANGED <<upgrade, store, last>>
  \/ \E c \in C, h \in 1..Len(handles), r \in RequestsOf(B) : PushEnter(c, h, r)
       /\ UNCHANGED <<upgrade, store, last>>
  \/ \E c \in C : PushOpen(c)
       /\ UNCHANGED <<upgrade, store, last>>
  \/ \E c \in C, o \in O : PushWrite(c, o)
       /\ UNCHANGED <<upgrade, store, last>>
  \/ \E c \in C, o \in O : PushFinish(c, o)
       /\ UNCHANGED <<upgrade, store, last>>
  \/ \E ce \in CE : ConnectionEnds(ce)
       /\ UNCHANGED <<upgrade, store, last>>
  \/ \E c \in C : \E i \in 1..Len(streams[c]) : PeerConsume(c, i)
       /\ UNCHANGED <<upgrade, store, last>>
  \/ \E c \in C, beh \in PB : \E i \in 1..Len(streams[c]) : PeerRespond(c, i, beh)
       /\ UNCHANGED <<upgrade, store, last>>

\* a single call, with every request body, every connection ending, every
\* resolution of every await and every peer behaviour
NextOne == NextOf({1}, Bodies, ConnectionErrors, AllOutcomes, PeerBehaviours)
InitOne == InitOf(RemotePeers)
SpecOne == InitOne /\ [][NextOne]_vars

\* concurrent calls, with two request bodies, one connection ending, and at
\* each stage a failure of the stream and a failure of the connection
ProbeBodies == {<<0>>, <<1>>}
ProbeEndings == {"ApplicationClosed"}
ProbeOutcomes ==
  {NoCause, WriteErr("Stopped", NoInner), WriteErr("UnexpectedEof", NoInner)}
  \cup {WriteErr("ConnectionLost", ce) : ce \in ProbeEndings}
ProbeBehaviours == {"echo", "truncated"}
Next == NextOf(CallIds, ProbeBodies, ProbeEndings, ProbeOutcomes, ProbeBehaviours)
Init == InitOf({"n2"})
Spec == Init /\ [][Next]_vars

\* concurrent calls through the handle and its clones
NextClones ==
  \/ \E h \in 1..Len(handles) : Clone(h) /\ UNCHANGED <<upgrade, store, last>>
  \/ NextOf(CallIds, {<<0>>}, ProbeEndings, ProbeOutcomes, {"echo"})
SpecClones == Init /\ [][NextClones]_vars

(* ------------------------------ properties ------------------------------ *)

Started(c) == calls[c].pc # "idle"
Failed(c) == calls[c].failed # "-"
Succeeded(c) == calls[c].result.kind = "Ok"
FailedAt(t, stage) == {c \in CallIds : calls[c].type = t /\ calls[c].failed = stage}
IsPrefix(s, t) == Len(s) <= Len(t) /\ s = SubSeq(t, 1, Len(s))

\* C1: every failed rpc or push call has incremented, by one, exactly the error
\* counter labelled with its request type and the stage that failed: after any
\* interleaving each error counter equals the number of calls of its type that
\* failed at its stage.
C1_ErrorCounted ==
  \A t \in RequestTypes, stage \in ErrorTypes :
    errors_total[<<t, stage>>] = Cardinality(FailedAt(t, stage))

C2_CountsStarted ==
  \A t \in RequestTypes :
    requests_total[t] = Cardinality({c \in CallIds : Started(c) /\ calls[c].type = t})
C2_NeverDecreases ==
  \A t \in RequestTypes : requests_total'[t] >= requests_total[t]
\* C2: the request counter of a call type equals the number of calls of that
\* type that have been started (in flight at any stage, failed or completed),
\* the increment being made at entry, before the stream is opened; and the
\* counter never decreases.
C2_RequestCounted == []C2_CountsStarted /\ [][C2_NeverDecreases]_vars
\* a call counted while it still awaits its stream, next to a call that failed
C2_Witness ==
  \E c, d \in CallIds :
    /\ calls[c].pc = "open" /\ streams[c] = <<>>
    /\ requests_total[calls[c].type] >= 1
    /\ Failed(d)

C3_AtMostOne ==
  \A c \in CallIds :
    /\ calls[c].errIncs <= 1
    /\ Succeeded(c) => calls[c].errIncs = 0
C3_SuccessStep ==
  (\E c \in CallIds : ~Succeeded(c) /\ calls'[c].result.kind = "Ok")
    => errors_total' = errors_total
\* C3: a call increments error counters at most once in total, a call that
\* returned success has incremented none, and the step by which a call returns
\* success leaves every error counter unchanged.
C3_ErrorCountersFrame == []C3_AtMostOne /\ [][C3_SuccessStep]_vars
\* a call that returned success and a call that failed, in one state
C3_Witness ==
  \E c, d \in CallIds : Succeeded(c) /\ Failed(d) /\ calls[d].errIncs <= 1

C4_StagesStop ==
  \A c \in CallIds :
    /\ Started(c) => IsPrefix(calls[c].stages, StagesOf(calls[c].type))
    /\ Len(streams[c]) <= 1
    /\ Failed(c) =>
         /\ calls[c].pc = "done"
         /\ calls[c].stages # <<>>
         /\ calls[c].stages[Len(calls[c].stages)] = calls[c].failed
         /\ calls[c].response = NoMessage
         /\ calls[c].failed = ERROR_TYPE_OPEN => streams[c] = <<>>
         /\ calls[c].failed = ERROR_TYPE_WRITE => ~streams[c][1].finished
         /\ calls[c].failed = ERROR_TYPE_FINISH => ~streams[c][1].finished
C4_ReturnedIsFinal ==
  \A c \in CallIds : calls[c].pc = "done" => calls'[c] = calls[c]
\* C4: the stages a call has attempted are an initial part of its stage order,
\* each attempted once; the stage that failed is the last one attempted and the
\* call has returned; a call opens at most one stream; after an open failure
\* there is no stream, after a write failure nothing was finished or read, after
\* a finish failure nothing was read; and a call that has returned takes no
\* further step.
C4_NoRetry == []C4_StagesStop /\ [][C4_ReturnedIsFinal]_vars
\* a write failure: the stream was opened and is not finished
C4_Witness ==
  \E c \in CallIds :
    /\ calls[c].failed = ERROR_TYPE_WRITE
    /\ calls[c].stages = <<ERROR_TYPE_OPEN, ERROR_TYPE_WRITE>>
    /\ Len(streams[c]) = 1

\* the stages whose failures go through a From conversion
MapperStages == {ERROR_TYPE_OPEN, ERROR_TYPE_FINISH}
IsConnectionLost(cause) == cause.e = "ConnectionLost"
\* the kind the error mapper gives the cause of a failure at `stage`
MapperKind(stage, cause) ==
  CASE stage = ERROR_TYPE_OPEN -> FromConnectionError(cause.e).kind
    [] stage \in {ERROR_TYPE_WRITE, ERROR_TYPE_FINISH} -> FromWriteError(cause).kind
    [] stage = ERROR_TYPE_READ ->
         IF IsConnectionLost(cause) THEN "Disconnected" ELSE "Io"

\* C5: at every stage the kind of the error a call returns is the error
\* mapper's classification of the underlying cause; in particular a write or
\* a read that fails because the connection is lost returns Disconnected.
C5_KindIsMappersClassification ==
  \A c \in CallIds :
    Failed(c) => calls[c].result.kind = MapperKind(calls[c].failed, calls[c].cause)

\* C6: every cause of a stream-write failure and every cause of a connection
\* failure is mapped, to a TransportError that is either Io or Disconnected:
\* the error of a call that failed at a stage that converts its cause is the
\* conversion of that cause, and its kind is one of the two.
C6_MapperTotal ==
  /\ \A value \in WriteErrors : FromWriteError(value).kind \in {"Io", "Disconnected"}
  /\ \A value \in ConnectionErrors :
       FromConnectionError(value).kind \in {"Io", "Disconnected"}
  /\ \A c \in CallIds :
       /\ calls[c].failed = ERROR_TYPE_OPEN =>
            /\ calls[c].cause.e \in ConnectionErrors
            /\ calls[c].result = FromConnectionError(calls[c].cause.e)
       /\ calls[c].failed = ERROR_TYPE_FINISH =>
            /\ calls[c].cause \in WriteErrors
            /\ calls[c].result = FromWriteError(calls[c].cause)
       /\ calls[c].failed \in MapperStages =>
            calls[c].result.kind \in {"Io", "Disconnected"}
\* an open that failed on a locally closed connection
C6_Witness ==
  \E c \in CallIds :
    /\ calls[c].failed = ERROR_TYPE_OPEN
    /\ calls[c].cause.e = "LocallyClosed"
    /\ calls[c].result.kind = "Disconnected"

\* the causes that say the connection is closed: by the peer's endpoint, by the
\* peer's application, by the local endpoint, or found lost by the transport
\* under a stream operation
ClosedCauses ==
  {"ConnectionClosed", "ApplicationClosed", "LocallyClosed", "ConnectionLost"}

IoCategories ==
  {KindConnectionReset, KindUnsupported, KindTimedOut, KindConnectionRefused, KindOther}
\* the category the claim gives each cause that becomes Io
CategoryOf(e) ==
  CASE e \in {"Stopped", "UnknownStream", "Reset"} -> KindConnectionReset
    [] e = "ZeroRttRejected" -> KindConnectionRefused
    [] e \in {"VersionMismatch", "TransportError"} -> KindUnsupported
    [] e = "TimedOut" -> KindTimedOut

\* C8: stream stop, unknown stream, version mismatch, rejected zero-RTT data,
\* transport-protocol error, connection reset and timeout are mapped to Io, each
\* with the category listed for it, and every Io the mapper produces has a
\* category of the closed set.
C8_IoCategories ==
  \A c \in CallIds :
    calls[c].failed \in MapperStages =>
      /\ calls[c].cause.e \notin ClosedCauses =>
           /\ calls[c].result.kind = "Io"
           /\ calls[c].result.category = CategoryOf(calls[c].cause.e)
      /\ calls[c].result.kind = "Io" => calls[c].result.category \in IoCategories
\* a finish refused because zero-RTT data was rejected
C8_Witness ==
  \E c \in CallIds :
    /\ calls[c].failed = ERROR_TYPE_FINISH
    /\ calls[c].cause.e = "ZeroRttRejected"
    /\ calls[c].result.category = KindConnectionRefused

IsPush(c) == calls[c].type = REQUEST_TYPE_PUSH
IsRpc(c) == calls[c].type = REQUEST_TYPE_RPC

\* C9: the streams of a push are unidirectional, a push reads nothing and has
\* no response; once its write and its finish have succeeded it has returned
\* success; and while it awaits the finish on a connection that is up, the
\* finish can succeed whatever the peer has or has not read.
C9_PushIsOneWay ==
  \A c \in CallIds :
    IsPush(c) =>
      /\ \A i \in 1..Len(streams[c]) :
           streams[c][i].kind = "uni" /\ streams[c][i].resp = <<>>
      /\ calls[c].pc # "read"
      /\ calls[c].response = NoMessage
      /\ ERROR_TYPE_READ \notin {calls[c].stages[i] : i \in 1..Len(calls[c].stages)}
      /\ (calls[c].stream # 0 /\ StreamOf(c).finished) =>
           calls[c].pc = "done" /\ Succeeded(c)
      /\ (calls[c].pc = "finish" /\ connection = "up") =>
           ENABLED PushFinish(c, NoCause)
\* a push that returned success while the peer has read nothing of it
C9_Witness ==
  \E c \in CallIds :
    /\ IsPush(c) /\ Succeeded(c)
    /\ StreamOf(c).sent # <<>> /\ ~StreamOf(c).consumed

\* the peer answered the call's request with the very frame it received
Echoed(c) == calls[c].stream # 0 /\ StreamOf(c).resp = StreamOf(c).sent
\* the node identities in a message's metadata
IdsOf(msg) == {msg.ext} \ {NoId}
PeerOf(c) == handles[calls[c].handle].peer_id

\* C10 as stated: against an echoing peer a successful rpc returns the request's
\* body, with the initiating node's identity and the responding peer's identity
\* both in the response's metadata.
C10_BothIdentities ==
  \A c \in CallIds :
    (IsRpc(c) /\ Succeeded(c) /\ Echoed(c)) =>
      /\ calls[c].response[1].body = calls[c].request.body
      /\ {LocalNode, PeerOf(c)} \subseteq IdsOf(calls[c].response[1])

\* C10 (amended): against an echoing peer a successful rpc returns the request's
\* body, and the one identity in the response's metadata is the handle's
\* peer_id: the responding peer's, which is also what the call put into the
\* request.
C10_RoundTrip ==
  \A c \in CallIds :
    (IsRpc(c) /\ Succeeded(c) /\ Echoed(c)) =>
      /\ Len(calls[c].response) = 1
      /\ calls[c].response[1].body = calls[c].request.body
      /\ IdsOf(calls[c].response[1]) = {PeerOf(c)}
      /\ IdsOf(calls[c].request) = {PeerOf(c)}
\* a round trip of a request with a body that is not empty
C10_Witness ==
  \E c \in CallIds :
    /\ IsRpc(c) /\ Succeeded(c) /\ Echoed(c)
    /\ calls[c].request.body # <<>>
    /\ calls[c].response[1].body = calls[c].request.body

\* the stream call c opened and holds (a call's streams are its own local values)
OwnStream(c) == streams[c][calls[c].stream]
\* the one frame the call's request makes
RequestFrame(c) == EncodeFrame(Serialize(calls[c].request))
ResponseArrived(c) ==
  /\ calls[c].stream # 0
  /\ OwnStream(c).resp # <<>>
  /\ FrameStatus(Head(OwnStream(c).resp)) = "ok"

\* C11: with any number of concurrent rpc calls on one connection, under every
\* interleaving, the response a call returns is made of the frame that arrived
\* on the stream that call opened, which carries that call's request and nothing
\* else, so against an echoing peer it has the body of the call's own request;
\* and a call whose response has arrived can read it whatever the other calls
\* are doing.
C11_OwnFrameOnly ==
  \A c \in CallIds :
    IsRpc(c) =>
      /\ calls[c].stream # 0 =>
           OwnStream(c).sent \in {<<>>, <<RequestFrame(c)>>}
      /\ Succeeded(c) =>
           /\ ResponseArrived(c)
           /\ calls[c].response[1].body =
                Deserialize(DecodeFrame(Head(OwnStream(c).resp))).body
           /\ OwnStream(c).resp = OwnStream(c).sent =>
                calls[c].response[1].body = calls[c].request.body
      /\ (calls[c].pc = "read" /\ ResponseArrived(c)) =>
           ENABLED RpcRead(c, NoCause)
\* two rpc calls with different requests, each returned with its own body
C11_Witness ==
  \E c, d \in CallIds :
    /\ c # d /\ IsRpc(c) /\ IsRpc(d) /\ Succeeded(c) /\ Succeeded(d)
    /\ calls[c].request.body # calls[d].request.body
    /\ calls[c].response[1].body = calls[c].request.body
    /\ calls[d].response[1].body = calls[d].request.body

\* what the local side has done with the streams a call opened
LocalSide(ss) == [i \in 1..Len(ss) |-> <<ss[i].kind, ss[i].sent, ss[i].finished>>]
C12_OwnStream ==
  \A c \in CallIds :
    /\ Len(streams[c]) <= 1
    /\ calls[c].stream = Len(streams[c])
    /\ calls[c].stream # 0 =>
         /\ OwnStream(c).kind = (IF IsRpc(c) THEN "bi" ELSE "uni")
         /\ OwnStream(c).sent \in {<<>>, <<RequestFrame(c)>>}
    /\ (IsRpc(c) /\ Succeeded(c)) =>
         calls[c].response = RpcResponse(c, Head(OwnStream(c).resp))
C12_OnlyOwnerUses ==
  \A d \in CallIds :
    LocalSide(streams'[d]) # LocalSide(streams[d]) =>
      /\ calls[d].pc \in {"open", "write", "finish"}
      /\ calls'[d] # calls[d]
      /\ \A e \in CallIds \ {d} :
           calls'[e] = calls[e] /\ LocalSide(streams'[e]) = LocalSide(streams[e])
      /\ Len(streams'[d]) > Len(streams[d]) =>
           /\ calls[d].pc = "open"
           /\ streams'[d][Len(streams'[d])].sent = <<>>
           /\ ~streams'[d][Len(streams'[d])].finished
           /\ streams'[d][Len(streams'[d])].resp = <<>>
\* C12: every call that gets past its open has one stream, new and empty when
\* opened, that no other call holds; a stream is opened, written and finished
\* only by steps of the call that opened it, while that call has not returned,
\* and such a step touches no other call's stream; an rpc's response is read
\* from its own stream.
C12_StreamPerCall == []C12_OwnStream /\ [][C12_OnlyOwnerUses]_vars
\* a later call writes on its own stream after an earlier call has returned
\* with its stream finished
C12_Witness ==
  \E c, d \in CallIds :
    /\ c # d /\ calls[c].pc = "done" /\ Len(streams[c]) = 1
    /\ streams[c][1].finished
    /\ calls[d].pc = "finish" /\ OwnStream(d).sent = <<RequestFrame(d)>>

FrameTooBig == WriteErr("FrameTooBig", NoInner)
UnexpectedEof == WriteErr("UnexpectedEof", NoInner)
\* the call attempted the read stage
AttemptedRead(c) ==
  ERROR_TYPE_READ \in {calls[c].stages[i] : i \in 1..Len(calls[c].stages)}
\* the frame on the read side of the call's stream declares more than the
\* maximum / more than the bytes that arrive before the stream ends
Oversize(c) ==
  /\ calls[c].stream # 0 /\ OwnStream(c).resp # <<>>
  /\ Head(OwnStream(c).resp).len > MaxFrameLen
Truncated(c) ==
  /\ calls[c].stream # 0 /\ OwnStream(c).resp # <<>>
  /\ Head(OwnStream(c).resp).len <= MaxFrameLen
  /\ Len(Head(OwnStream(c).resp).data) < Head(OwnStream(c).resp).len

\* C13: an rpc whose response frame declares a length over the maximum frame
\* size, or whose stream ends before the declared bytes have arrived, returns
\* Io: not Disconnected and no response; the oversize frame is refused on its
\* declared length, while fewer payload bytes than that are there to be read.
C13_BadFrameIsIo ==
  \A c \in CallIds :
    /\ (IsRpc(c) /\ calls[c].pc = "read" /\ Oversize(c)) =>
         /\ ENABLED RpcRead(c, FrameTooBig)
         /\ Len(Head(OwnStream(c).resp).data) <= MaxFrameLen
         /\ ~ENABLED RpcRead(c, NoCause)
         /\ ~ENABLED RpcRead(c, UnexpectedEof)
    /\ (IsRpc(c) /\ calls[c].pc = "read" /\ Truncated(c)) =>
         /\ ENABLED RpcRead(c, UnexpectedEof)
         /\ ~ENABLED RpcRead(c, NoCause)
    /\ (IsRpc(c) /\ AttemptedRead(c) /\ calls[c].pc = "done"
          /\ (Oversize(c) \/ Truncated(c))) =>
         /\ calls[c].failed = ERROR_TYPE_READ
         /\ calls[c].result.kind = "Io"
         /\ calls[c].response = NoMessage
    /\ (Failed(c) /\ calls[c].cause \in {FrameTooBig, UnexpectedEof}) =>
         /\ calls[c].failed = ERROR_TYPE_READ
         /\ calls[c].result.kind = "Io"
         /\ calls[c].response = NoMessage
         /\ calls[c].cause = FrameTooBig <=> Oversize(c)
         /\ calls[c].cause = UnexpectedEof <=> Truncated(c)
\* an rpc that returned Io for an oversize frame of which no payload byte was
\* there
C13_Witness ==
  \E c \in CallIds :
    /\ IsRpc(c) /\ calls[c].failed = ERROR_TYPE_READ
    /\ calls[c].cause = FrameTooBig
    /\ Oversize(c) /\ Head(OwnStream(c).resp).data = <<>>
    /\ calls[c].result.kind = "Io"

\* the messages that have been written on the call's stream
SentMessages(c) ==
  IF calls[c].stream = 0 THEN {}
  ELSE {Deserialize(DecodeFrame(OwnStream(c).sent[i])) : i \in 1..Len(OwnStream(c).sent)}

\* C14 as stated: every started rpc or push carries an identity in its request
\* from before the open on, and that identity is the initiating node's.
C14_InitiatorsIdentity ==
  \A c \in CallIds :
    Started(c) =>
      /\ IdsOf(calls[c].request) # {}
      /\ IdsOf(calls[c].request) = {LocalNode}

C14_IdentityInRequest ==
  \A c \in CallIds :
    /\ Started(c) => IdsOf(calls[c].request) = {PeerOf(c)}
    /\ calls[c].pc = "open" => streams[c] = <<>>
    /\ \A msg \in SentMessages(c) : IdsOf(msg) = {PeerOf(c)}
C14_InsertedAtEntry ==
  \A c \in CallIds :
    (~Started(c) /\ Started(c)') =>
      /\ calls'[c].pc = "open"
      /\ calls'[c].request.ext = handles[calls'[c].handle].peer_id
      /\ streams' = streams
\* C14 (amended): in rpc and in push the identity is in the request's metadata
\* when the call starts, before its stream is opened and before anything is
\* written, so every request that is written carries it; the identity is the
\* handle's peer_id, the peer at the other end of the connection.
C14_IdentityBeforeOpen == []C14_IdentityInRequest /\ [][C14_InsertedAtEntry]_vars
\* a push that has written its request, with the handle's peer in it
C14_Witness ==
  \E c \in CallIds :
    /\ IsPush(c) /\ calls[c].pc = "finish"
    /\ SentMessages(c) # {}
    /\ \A msg \in SentMessages(c) : msg.ext = PeerOf(c) /\ msg.ext # LocalNode

\* C15: a response that rpc returns has the responding peer's identity (the
\* handle's peer_id) as the identity of its metadata, whatever metadata the
\* frame that was read carried; it is returned by the step that read the frame
\* on the call's stream; and a call that has not succeeded, in particular one
\* that failed at any stage, has no response.
C15_ResponderIdentity ==
  \A c \in CallIds :
    /\ (IsRpc(c) /\ Succeeded(c)) =>
         /\ Len(calls[c].response) = 1
         /\ IdsOf(calls[c].response[1]) = {PeerOf(c)}
         /\ AttemptedRead(c)
         /\ ResponseArrived(c)
         /\ calls[c].pc = "done"
    /\ ~Succeeded(c) => calls[c].response = NoMessage
    /\ Failed(c) => ~Succeeded(c)
\* a response whose frame carried no identity, returned with the peer's
C15_Witness ==
  \E c \in CallIds :
    /\ IsRpc(c) /\ Succeeded(c)
    /\ IdsOf(Deserialize(DecodeFrame(Head(OwnStream(c).resp)))) = {}
    /\ IdsOf(calls[c].response[1]) = {PeerOf(c)}

AnyRequest == Message(NoId, <<>>)
CanStart(c) ==
  calls[c].pc = "idle" /\ (IF c = 1 THEN TRUE ELSE calls[c - 1].pc # "idle")
C16_OpenIsAttempted ==
  \A c \in CallIds :
    /\ (connection # "up" /\ CanStart(c)) =>
         /\ ENABLED RpcEnter(c, 1, AnyRequest)
         /\ ENABLED PushEnter(c, 1, AnyRequest)
    /\ calls[c].enteredClosed =>
         /\ Started(c)
         /\ requests_total[calls[c].type] >= 1
         /\ calls[c].pc \in {"open", "done"}
         /\ calls[c].pc = "open" =>
              /\ calls[c].result = NoResult
              /\ IF IsRpc(c) THEN ENABLED RpcOpen(c) ELSE ENABLED PushOpen(c)
         /\ calls[c].pc = "done" =>
              /\ calls[c].stages = <<ERROR_TYPE_OPEN>>
              /\ calls[c].failed = ERROR_TYPE_OPEN
              /\ calls[c].cause.e = connection
              /\ calls[c].result = FromConnectionError(connection)
C16_EntryCountsOnly ==
  /\ handles' = handles
  /\ \A c \in CallIds :
       (~Started(c) /\ Started(c)') =>
         /\ calls'[c].pc = "open"
         /\ calls'[c].result = NoResult
         /\ requests_total'[calls'[c].type] = requests_total[calls'[c].type] + 1
\* C16: a handle's state never changes, whatever happens to the connection; an
\* rpc or push can be started on a connection that has ended; starting it
\* counts the request and returns nothing, the call awaits its open; and what
\* it returns is the failure of that open, the conversion of the error that
\* ended the connection.
C16_NoPreCheck == []C16_OpenIsAttempted /\ [][C16_EntryCountsOnly]_vars
\* a push started after the connection timed out, returned with the open's
\* failure
C16_Witness ==
  \E c \in CallIds :
    /\ IsPush(c) /\ calls[c].enteredClosed /\ connection = "TimedOut"
    /\ requests_total[REQUEST_TYPE_PUSH] = 1
    /\ calls[c].failed = ERROR_TYPE_OPEN
    /\ calls[c].result = Io(KindTimedOut, NoDesc)

ReturnedDisconnected(c) == calls[c].result.kind = "Disconnected"
\* the call was started after some call had returned an error of kind k
StartedAfter(c, k) == k \in calls[c].enteredAfter
\* the stage the call awaits can resolve with success
StageCanSucceed(c) ==
  CASE calls[c].pc = "open" ->
         IF IsRpc(c) THEN ENABLED (RpcOpen(c) /\ calls'[c].pc = "write")
         ELSE ENABLED (PushOpen(c) /\ calls'[c].pc = "write")
    [] calls[c].pc = "write" ->
         IF IsRpc(c) THEN ENABLED RpcWrite(c, NoCause)
         ELSE ENABLED PushWrite(c, NoCause)
    [] calls[c].pc = "finish" ->
         IF IsRpc(c) THEN ENABLED RpcFinish(c, NoCause)
         ELSE ENABLED PushFinish(c, NoCause)
    [] calls[c].pc = "read" -> ResponseArrived(c) => ENABLED RpcRead(c, NoCause)
    [] OTHER -> TRUE

\* C17: when a call has returned Disconnected the connection has ended, and a
\* call started after that, through the same handle or a clone of it, fails at
\* its open and never returns success; a call started after another call
\* returned Io, while the connection is up, can start and can succeed at every
\* stage.
C17_DisconnectedIsFinal ==
  \A c \in CallIds :
    /\ ReturnedDisconnected(c) => connection # "up"
    /\ StartedAfter(c, "Disconnected") =>
         /\ calls[c].enteredClosed
         /\ ~Succeeded(c)
         /\ calls[c].stream = 0
         /\ calls[c].pc = "done" => calls[c].failed = ERROR_TYPE_OPEN
    /\ ((\E d \in CallIds : calls[d].result.kind = "Io")
          /\ connection = "up" /\ CanStart(c)) =>
         \A h \in 1..Len(handles) :
           ENABLED RpcEnter(c, h, AnyRequest) /\ ENABLED PushEnter(c, h, AnyRequest)
    /\ (StartedAfter(c, "Io") /\ connection = "up") => StageCanSucceed(c)
\* a call returned Disconnected, and a call started after that through another
\* clone of the handle failed at its open
C17_Witness ==
  \E c, d \in CallIds :
    /\ c # d /\ ReturnedDisconnected(c)
    /\ StartedAfter(d, "Disconnected")
    /\ calls[d].handle # calls[c].handle
    /\ calls[d].failed = ERROR_TYPE_OPEN
\* a call returned Io, and a call started after that through another clone of
\* the handle succeeded
C17_WitnessIo ==
  \E c, d \in CallIds :
    /\ c # d /\ calls[c].result.kind = "Io"
    /\ StartedAfter(d, "Io") /\ Succeeded(d)
    /\ calls[d].handle # calls[c].handle

\* the connections the handles refer to
ConnectionsOf(hs) == {hs[h].connection : h \in 1..Len(hs)}
InFlight(c) == calls[c].pc \in {"open", "write", "finish", "read"}
C18_OneConnection ==
  /\ ConnectionsOf(handles) = {TheConnection}
  /\ \A h \in 1..Len(handles) : handles[h] = handles[1]
  /\ \A c \in CallIds : \A i \in 1..Len(streams[c]) :
       streams[c][i].conn = TheConnection
  /\ \A c \in CallIds :
       /\ CanStart(c) =>
            \A h \in 1..Len(handles) :
              ENABLED RpcEnter(c, h, AnyRequest) /\ ENABLED PushEnter(c, h, AnyRequest)
       /\ (InFlight(c) /\ connection = "up") => StageCanSucceed(c)
C18_CloneStep ==
  handles' # handles =>
    /\ \E h \in 1..Len(handles) : handles' = Append(handles, handles[h])
    /\ UNCHANGED <<connection, streams, calls, requests_total, errors_total>>
\* C18: all handles are copies of the first: the same peer identity, the one
\* connection; cloning changes nothing but the number of handles; every stream
\* opened through any of them is a stream of that connection; and while the
\* connection is up a call through any clone can be started, and every call in
\* flight can succeed at the stage it awaits, whatever the calls through other
\* clones are doing.
C18_ClonesShare == []C18_OneConnection /\ [][C18_CloneStep]_vars
\* two calls through different clones, both with their streams open on the
\* connection at the same time
C18_Witness ==
  \E c, d \in CallIds :
    /\ c # d /\ calls[c].handle # calls[d].handle
    /\ calls[c].pc = "finish" /\ calls[d].pc = "read"
    /\ OwnStream(c).conn = TheConnection /\ OwnStream(d).conn = TheConnection
    /\ handles[calls[c].handle] = handles[calls[d].handle]

(* ========================== get_upgrade_info ============================ *)
(* rs/sns/governance/src/sns_upgrade.rs, lines 13-113                        *)

\* the canisters of an SNS whose WASM hashes a version lists, in the order the
\* hashes are compared (lines 24-35)
SnsCanisterTypes == <<"Root", "Governance", "Ledger", "Swap">>
UpgradeableTypes == {SnsCanisterTypes[i] : i \in 1..Len(SnsCanisterTypes)}
\* SnsCanisterType values a WASM of the SNS-WASM canister can carry, and an i32
\* that is none of them
OtherCanisterTypes == {"Unspecified", "Archive"}
NotACanisterType == "not-a-type"

WasmHashes == {0, 1}
SnsVersions == [UpgradeableTypes -> WasmHashes]

\* Option<PrincipalId> of ListSnsCanistersResponse: None, a principal that is a
\* canister id, a principal that CanisterId::new refuses
NoPrincipal == <<"None">>
BadPrincipal == <<"principal", "not-a-canister-id">>
PrincipalOf(t) == <<"canister", t>>
AllPresent == [t \in UpgradeableTypes |-> PrincipalOf(t)]
\* the canister lists tried: complete, or with one entry missing or unusable
SnsCanisterLists ==
  {AllPresent}
  \cup {[AllPresent EXCEPT ![t] = p] : t \in UpgradeableTypes, p \in {NoPrincipal, BadPrincipal}}

Wasms == {<<1>>, <<2>>}
\* what env.call_canister(SNS_WASM_CANISTER_ID, "get_wasm", ..) can resolve to:
\* an Err, bytes that do not decode, a GetWasmResponse without a wasm, or one
\* with a wasm of some canister type
NoReply == [is |-> "-", canister_type |-> "-", wasm |-> <<>>]
FailedReply(is) == [is |-> is, canister_type |-> "-", wasm |-> <<>>]
GetWasmReplies ==
  {FailedReply(is) : is \in {"CallFailed", "Undecodable", "NoWasm"}}
  \cup [is : {"Wasm"},
        canister_type : UpgradeableTypes \cup OtherCanisterTypes \cup {NotACanisterType},
        wasm : Wasms]

ERROR_TYPE_INVALID_PROPOSAL == "InvalidProposal"
\* the three ways the function ends
OkOutcome(canister_id, wasm) ==
  [kind |-> "Ok", error_type |-> "-", value |-> <<canister_id, wasm>>, message |-> "-"]
ErrOutcome(error_type, message) ==
  [kind |-> "Err", error_type |-> error_type, value |-> <<>>, message |-> message]
PanicOutcome(message) ==
  [kind |-> "Panic", error_type |-> "-", value |-> <<>>, message |-> message]

\* lines 23-35: the types whose hash differs, in comparison order
Differences(current_version, next_version) ==
  SelectSeq(SnsCanisterTypes, LAMBDA t : current_version[t] # next_version[t])

\* lines 53-61: the closure get_canister_id; "ok" or the panic it raises
CanisterIdStatus(maybe_canister_principal) ==
  CASE maybe_canister_principal = NoPrincipal -> "Did not receive CanisterId from list_sns_canisters"
    [] maybe_canister_principal = BadPrincipal -> "called Result::unwrap() on an Err value"
    [] OTHER -> "ok"

UpgradeReturns(outcome) == [upgrade EXCEPT !.pc = "done", !.outcome = outcome]

\* (variant: several differing hashes, the first is upgraded)
GetUpgradeInfoTakesFirst(sns_canisters, current_version, next_version) ==
  /\ upgrade.pc = "idle"
  /\ LET differences == Differences(current_version, next_version)
         started == [upgrade EXCEPT !.sns_canisters = sns_canisters,
                                    !.current_version = current_version,
                                    !.next_version = next_version]
     IN  upgrade' =
           IF differences = <<>>
             THEN [started EXCEPT !.pc = "done", !.outcome =
                     ErrOutcome(ERROR_TYPE_INVALID_PROPOSAL, "No difference was found")]
           ELSE LET canister_type == differences[1]
                    status == CanisterIdStatus(sns_canisters[canister_type])
                IN  IF status # "ok"
                      THEN [started EXCEPT !.pc = "done", !.canister_type = canister_type,
                                           !.outcome = PanicOutcome(status)]
                      ELSE [started EXCEPT !.pc = "get_wasm",
                                           !.canister_type = canister_type,
                                           !.canister_id = sns_canisters[canister_type],
                                           !.wasm_hash = next_version[canister_type],
                                           !.get_wasm_calls = @ + 1]
  /\ UNCHANGED <<transportVars, store, last>>

\* lines 23-93: from the call to the await of get_wasm: the differences, the two
\* early returns, the canister to upgrade and its id, the request for its WASM
GetUpgradeInfo(sns_canisters, current_version, next_version) ==
  /\ upgrade.pc = "idle"
  /\ LET differences == Differences(current_version, next_version)
         started == [upgrade EXCEPT !.sns_canisters = sns_canisters,
                                    !.current_version = current_version,
                                    !.next_version = next_version]
     IN  upgrade' =
           IF differences = <<>>
             THEN [started EXCEPT !.pc = "done", !.outcome =
                     ErrOutcome(ERROR_TYPE_INVALID_PROPOSAL, "No difference was found")]
           ELSE IF Len(differences) > 1
             THEN [started EXCEPT !.pc = "done", !.outcome =
                     ErrOutcome(ERROR_TYPE_INVALID_PROPOSAL, "There is more than one upgrade possible")]
           ELSE LET canister_type == differences[1]
                    status == CanisterIdStatus(sns_canisters[canister_type])
                IN  IF status # "ok"
                      THEN [started EXCEPT !.pc = "done", !.canister_type = canister_type,
                                           !.outcome = PanicOutcome(status)]
                      ELSE [started EXCEPT !.pc = "get_wasm",
                                           !.canister_type = canister_type,
                                           !.canister_id = sns_canisters[canister_type],
                                           !.wasm_hash = next_version[canister_type],
                                           !.get_wasm_calls = @ + 1]
  /\ UNCHANGED <<transportVars, store, last>>

\* lines 94-112: what is done with the reply of get_wasm
WasmOutcome(reply) ==
  CASE reply.is = "CallFailed" -> PanicOutcome("Call to get_wasm failed")
    [] reply.is = "Undecodable" -> PanicOutcome("Decoding GetWasmResponse failed")
    [] reply.is = "NoWasm" ->
         PanicOutcome("No WASM found using hash returned from SNS-WASM canister.")
    [] OTHER ->
         IF reply.canister_type = NotACanisterType
           THEN PanicOutcome("called Option::unwrap() on a None value")
         ELSE IF reply.canister_type # upgrade.canister_type
           THEN PanicOutcome("WASM returned from SNS-WASM is not intended for the same canister type.")
         ELSE OkOutcome(upgrade.canister_id, reply.wasm)

\* lines 87-112: the call of get_wasm resolves with `reply`
GetWasmResolves(reply) ==
  /\ upgrade.pc = "get_wasm"
  /\ upgrade' = [UpgradeReturns(WasmOutcome(reply)) EXCEPT !.reply = reply]
  /\ UNCHANGED <<transportVars, store, last>>

\* no connection handle is in use
NoTransport ==
  /\ handles = <<>>
  /\ connection = "up"
  /\ streams = [c \in CallIds |-> <<>>]
  /\ calls = [c \in CallIds |-> IdleCall]
  /\ requests_total = [t \in RequestTypes |-> 0]
  /\ errors_total = [l \in ErrorLabels |-> 0]

InitUpgrade ==
  /\ NoTransport
  /\ upgrade = NoUpgrade
  /\ store = NoStore
  /\ last = NoOperation
NextUpgrade ==
  \/ \E sns_canisters \in SnsCanisterLists, current_version \in SnsVersions,
        next_version \in SnsVersions :
       GetUpgradeInfo(sns_canisters, current_version, next_version)
  \/ \E reply \in GetWasmReplies : GetWasmResolves(reply)
SpecUpgrade == InitUpgrade /\ [][NextUpgrade]_vars

\* the WASM could not be obtained: the call failed, its reply does not decode,
\* or it holds no WASM
WasmNotObtained == upgrade.reply.is \in {"CallFailed", "Undecodable", "NoWasm"}
MoreThanOneDiffers ==
  Len(Differences(upgrade.current_version, upgrade.next_version)) > 1

\* C19: when get_upgrade_info has ended, it has returned an Err, and has not
\* aborted, if more than one WASM hash differs between the two versions or if
\* the WASM could not be obtained.
C19_ErrNotAbort ==
  upgrade.pc = "done" =>
    /\ MoreThanOneDiffers => upgrade.outcome.kind = "Err"
    /\ WasmNotObtained => upgrade.outcome.kind = "Err"

(* ============================ neuron store =============================== *)
(* The store behind rs/nns/governance/src/storage/neurons/neurons_tests.rs:  *)
(* its operations as the tests call them, with the results the tests assert. *)

\* the ids and stakes the tests use: 42, 0xF00D; 0xCAFE, 0xFEED, 0xBEEF
NeuronIds == {42, 61453}
Stakes == {51966, 65261, 48879}
Neuron(id, cached_neuron_stake_e8s) ==
  [id |-> id, cached_neuron_stake_e8s |-> cached_neuron_stake_e8s]
Neurons == {Neuron(id, stake) : id \in NeuronIds, stake \in Stakes}
\* no neuron under an id
NoNeuron == Neuron(0, 0)

ERROR_TYPE_PRECONDITION_FAILED == "PreconditionFailed"
ERROR_TYPE_NOT_FOUND == "NotFound"
StoreOk == [is |-> "Ok", error_type |-> "-"]
StoreErr(error_type) == [is |-> "Err", error_type |-> error_type]

\* new_heap_based()
NewHeapBased == [id \in NeuronIds |-> NoNeuron]

Operation(op, id, neuron, result, value) ==
  [op |-> op, id |-> id, neuron |-> neuron, result |-> result, value |-> value]

\* (variant: a create under an id in use fails and still replaces the neuron)
CreateReplaces(neuron) ==
  /\ store' = [store EXCEPT ![neuron.id] = neuron]
  /\ last' = Operation("create", neuron.id, neuron,
               IF store[neuron.id] # NoNeuron
                 THEN StoreErr(ERROR_TYPE_PRECONDITION_FAILED) ELSE StoreOk,
               NoNeuron)
  /\ UNCHANGED <<transportVars, upgrade>>

\* store.create(neuron)
Create(neuron) ==
  /\ IF store[neuron.id] # NoNeuron
       THEN /\ store' = store
            /\ last' = Operation("create", neuron.id, neuron,
                         StoreErr(ERROR_TYPE_PRECONDITION_FAILED), NoNeuron)
       ELSE /\ store' = [store EXCEPT ![neuron.id] = neuron]
            /\ last' = Operation("create", neuron.id, neuron, StoreOk, NoNeuron)
  /\ UNCHANGED <<transportVars, upgrade>>

\* store.read(neuron_id)
Read(neuron_id) ==
  /\ store' = store
  /\ last' = IF store[neuron_id] = NoNeuron
               THEN Operation("read", neuron_id, NoNeuron,
                              StoreErr(ERROR_TYPE_NOT_FOUND), NoNeuron)
               ELSE Operation("read", neuron_id, NoNeuron, StoreOk, store[neuron_id])
  /\ UNCHANGED <<transportVars, upgrade>>

\* store.update(neuron)
Update(neuron) ==
  /\ IF store[neuron.id] = NoNeuron
       THEN /\ store' = store
            /\ last' = Operation("update", neuron.id, neuron,
                         StoreErr(ERROR_TYPE_NOT_FOUND), NoNeuron)
       ELSE /\ store' = [store EXCEPT ![neuron.id] = neuron]
            /\ last' = Operation("update", neuron.id, neuron, StoreOk, NoNeuron)
  /\ UNCHANGED <<transportVars, upgrade>>

\* store.delete(neuron_id)
Delete(neuron_id) ==
  /\ IF store[neuron_id] = NoNeuron
       THEN /\ store' = store
            /\ last' = Operation("delete", neuron_id, NoNeuron,
                         StoreErr(ERROR_TYPE_NOT_FOUND), NoNeuron)
       ELSE /\ store' = [store EXCEPT ![neuron_id] = NoNeuron]
            /\ last' = Operation("delete", neuron_id, NoNeuron, StoreOk, NoNeuron)
  /\ UNCHANGED <<transportVars, upgrade>>

\* (variant: an upsert under an id in use keeps the neuron that is there)
UpsertKeepsExisting(neuron) ==
  /\ store' = IF store[neuron.id] = NoNeuron
                THEN [store EXCEPT ![neuron.id] = neuron] ELSE store
  /\ last' = Operation("upsert", neuron.id, neuron, StoreOk, NoNeuron)
  /\ UNCHANGED <<transportVars, upgrade>>

\* store.upsert(neuron)
Upsert(neuron) ==
  /\ store' = [store EXCEPT ![neuron.id] = neuron]
  /\ last' = Operation("upsert", neuron.id, neuron, StoreOk, NoNeuron)
  /\ UNCHANGED <<transportVars, upgrade>>

InitStore ==
  /\ NoTransport
  /\ upgrade = NoUpgrade
  /\ store = NewHeapBased
  /\ last = Operation("-", 0, NoNeuron, StoreOk, NoNeuron)
NextStore ==
  \/ \E neuron \in Neurons : Create(neuron)
  \/ \E neuron_id \in NeuronIds : Read(neuron_id)
  \/ \E neuron \in Neurons : Update(neuron)
  \/ \E neuron_id \in NeuronIds : Delete(neuron_id)
  \/ \E neuron \in Neurons : Upsert(neuron)
SpecStore == InitStore /\ [][NextStore]_vars

\* the operation of this step was made on an id in use / not in use
OnPresent(op) == last'.op = op /\ store[last'.id] # NoNeuron
OnAbsent(op) == last'.op = op /\ store[last'.id] = NoNeuron
C20_FailingStep ==
  /\ last'.result.is = "Err" => store' = store
  /\ OnPresent("create") =>
       /\ last'.result = StoreErr(ERROR_TYPE_PRECONDITION_FAILED)
       /\ store'[last'.id] = store[last'.id]
  /\ OnAbsent("update") =>
       /\ last'.result = StoreErr(ERROR_TYPE_NOT_FOUND)
       /\ store'[last'.id] = NoNeuron
  /\ OnAbsent("read") => last'.result = StoreErr(ERROR_TYPE_NOT_FOUND)
  /\ OnPresent("read") => last'.result = StoreOk /\ last'.value = store[last'.id]
  /\ last'.op = "read" => store' = store
  /\ OnAbsent("delete") =>
       /\ last'.result = StoreErr(ERROR_TYPE_NOT_FOUND)
       /\ store' = store
WritingOps == {"create", "update", "upsert"}
\* the operation of this step succeeded
Succeeds(op) == last'.op = op /\ last'.result = StoreOk
C21_WriteThenRead ==
  /\ \A id \in NeuronIds \ {last'.id} : store'[id] = store[id]
  /\ \A op \in WritingOps : Succeeds(op) => store'[last'.id] = last'.neuron
  /\ Succeeds("delete") => store'[last'.id] = NoNeuron
  /\ last'.result.is = "Err" => store'[last'.id] = store[last'.id]
  /\ last'.op = "read" =>
       /\ store'[last'.id] = store[last'.id]
       /\ IF store[last'.id] = NoNeuron
            THEN last'.result = StoreErr(ERROR_TYPE_NOT_FOUND)
            ELSE last'.result = StoreOk /\ last'.value = store[last'.id]
  /\ last'.op = "upsert" => last'.result = StoreOk
  /\ OnAbsent("create") => last'.result = StoreOk
  /\ OnPresent("update") => last'.result = StoreOk
  /\ OnPresent("delete") => last'.result = StoreOk
C21_FreshStoreIsEmpty ==
  last.op = "-" => \A id \in NeuronIds : store[id] = NoNeuron
HasStream(c) == calls[c].stream # 0
C22_StagesInOrder ==
  \A c \in CallIds :
    IsRpc(c) =>
      /\ HasStream(c) =>
           /\ OwnStream(c).kind = "bi"
           /\ OwnStream(c).finished => OwnStream(c).sent = <<RequestFrame(c)>>
           /\ calls[c].pc \in {"open", "write", "finish"} => ~OwnStream(c).finished
      /\ calls[c].pc = "read" =>
           /\ HasStream(c) /\ OwnStream(c).finished
           /\ calls[c].stages = <<ERROR_TYPE_OPEN, ERROR_TYPE_WRITE, ERROR_TYPE_FINISH>>
           /\ calls[c].response = NoMessage
      /\ Succeeded(c) =>
           /\ calls[c].stages = StagesOf(REQUEST_TYPE_RPC)
           /\ OwnStream(c).sent = <<RequestFrame(c)>>
           /\ OwnStream(c).finished
           /\ Len(calls[c].response) = 1
C22_FinishOnce ==
  \A c \in CallIds :
    (IsRpc(c) /\ HasStream(c)) =>
      /\ OwnStream(c).finished => (streams'[c] # streams[c] => streams'[c][1].finished)
      /\ (~OwnStream(c).finished /\ streams'[c][1].finished) =>
           /\ calls[c].pc = "finish" /\ calls'[c].pc = "read"
           /\ OwnStream(c).sent = <<RequestFrame(c)>>
      /\ OwnStream(c).finished => streams'[c][1].sent = OwnStream(c).sent
      /\ calls'[c].response # calls[c].response =>
           calls[c].pc = "read" /\ calls'[c].pc = "done"
\* C22: an rpc that succeeded went through open, write, finish, read in that
\* order, each once, on a bidirectional stream; the write side is finished by
\* one step, taken when the whole request frame is written and nothing is
\* written after it; the call awaits the response only on a finished stream;
\* and its response is the one frame it read, by the step that returns.
C22_RpcOrder == []C22_StagesInOrder /\ [][C22_FinishOnce]_vars
\* an rpc awaits the response on its finished stream while another has returned
\* its response
C22_Witness ==
  \E c, d \in CallIds :
    /\ IsRpc(c) /\ Succeeded(c) /\ calls[c].stages = StagesOf(REQUEST_TYPE_RPC)
    /\ IsRpc(d) /\ calls[d].pc = "read" /\ OwnStream(d).finished

(* ------------------------------ termination ------------------------------ *)

\* the awaited operation of call c resolves, with one of the results O
StageResolves(c, O) ==
  /\ \/ RpcOpen(c)
     \/ PushOpen(c)
     \/ \E o \in O : \/ RpcWrite(c, o)
                     \/ RpcFinish(c, o)
                     \/ RpcRead(c, o)
                     \/ PushWrite(c, o)
                     \/ PushFinish(c, o)
  /\ UNCHANGED <<upgrade, store, last>>
\* the peer answers the request of call c
PeerAnswers(c, PB) ==
  /\ \E beh \in PB : \E i \in 1..Len(streams[c]) : PeerRespond(c, i, beh)
  /\ UNCHANGED <<upgrade, store, last>>
\* with one request body; an await fails when the connection has ended, and the
\* read also when the frame that arrived is cut short
LiveBodies == {<<0>>}
LiveOutcomes == ProbeOutcomes \ {WriteErr("Stopped", NoInner)}
\* every awaited operation resolves in the end: the operations of the
\* connection, and the response the read waits for
Resolving ==
  \A c \in CallIds :
    WF_vars(StageResolves(c, LiveOutcomes) \/ PeerAnswers(c, ProbeBehaviours))
NextLive ==
  NextOf(CallIds, LiveBodies, ProbeEndings, LiveOutcomes, ProbeBehaviours)
SpecLive == Init /\ [][NextLive]_vars /\ Resolving

ReturnKinds == {"Ok", "Io", "Disconnected"}
Returned(c) == calls[c].pc = "done"
C23_ResultKinds ==
  \A c \in CallIds :
    /\ Returned(c) <=> calls[c].result # NoResult
    /\ Returned(c) => calls[c].result.kind \in ReturnKinds
    /\ Failed(c) => calls[c].result.kind \in {"Io", "Disconnected"}
    /\ calls[c].pc \in {"idle", "open", "write", "finish", "read", "done"}
\* C23: when every awaited operation resolves in the end, every rpc and push
\* call that was started returns; what a call returns is success, Io or
\* Disconnected, and a call is never anywhere but at one of its awaits or
\* returned.
C23_EveryCallReturns ==
  /\ []C23_ResultKinds
  /\ \A c \in CallIds : Started(c) ~> Returned(c)
\* a call returned Disconnected from its finish and another returned Io from
\* its read
C23_Witness ==
  \E c, d \in CallIds :
    /\ Returned(c) /\ calls[c].failed = ERROR_TYPE_FINISH
    /\ calls[c].result.kind = "Disconnected"
    /\ Returned(d) /\ calls[d].failed = ERROR_TYPE_READ
    /\ calls[d].result.kind = "Io"

\* the stages whose failures are wrapped as Io where they happen
WrappedStages == {ERROR_TYPE_WRITE, ERROR_TYPE_READ}
\* C24: a failure of the write of rpc or push, or of the read of rpc, is
\* returned as Io whatever its cause, a lost connection included; so a call
\* that returned Disconnected failed at its open or at its finish.
C24_WriteAndReadFailAsIo ==
  \A c \in CallIds :
    /\ calls[c].failed \in WrappedStages => calls[c].result.kind = "Io"
    /\ ReturnedDisconnected(c) => calls[c].failed \in MapperStages
    /\ calls[c].failed = ERROR_TYPE_READ => IsRpc(c)
\* a push whose write failed because the connection was lost returned Io
C24_Witness ==
  \E c \in CallIds :
    /\ IsPush(c) /\ calls[c].failed = ERROR_TYPE_WRITE
    /\ IsConnectionLost(calls[c].cause)
    /\ FromWriteError(calls[c].cause).kind = "Disconnected"
    /\ calls[c].result.kind = "Io"

\* the identity in the request of call c and in the response it returned
RequestIdentity(c) == calls[c].request.ext
ResponseIdentity(c) == calls[c].response[1].ext
C25_SameIdentity ==
  \A c \in CallIds :
    /\ Started(c) =>
         /\ RequestIdentity(c) = PeerOf(c)
         /\ PeerOf(c) \in RemotePeers
         /\ \A msg \in SentMessages(c) : msg.ext = PeerOf(c)
    /\ (IsRpc(c) /\ Succeeded(c)) =>
         /\ ResponseIdentity(c) = RequestIdentity(c)
         /\ ResponseIdentity(c) = PeerOf(c)
C25_IdentityKept ==
  \A c \in CallIds :
    /\ Started(c) => /\ RequestIdentity(c)' = RequestIdentity(c)
                     /\ PeerOf(c)' = PeerOf(c)
    /\ calls[c].response # NoMessage => calls'[c].response = calls[c].response
\* C25: the identity rpc puts into the request and the identity it puts into
\* the response it returns are one value, the peer_id of the handle the call
\* went through, the peer at the other end of the connection; rpc and push put
\* that identity into the request and no step of a call puts in another.
C25_HandlesPeerOnly == []C25_SameIdentity /\ [][C25_IdentityKept]_vars
\* an rpc returned a response with the handle's peer in it, the same as in its
\* request, although the frame that was read carried no identity
C25_Witness ==
  \E c \in CallIds :
    /\ IsRpc(c) /\ Succeeded(c)
    /\ Deserialize(DecodeFrame(Head(OwnStream(c).resp))).ext = NoId
    /\ ResponseIdentity(c) = RequestIdentity(c)
    /\ ResponseIdentity(c) = "n3"

\* call c takes a step
Acts(c) == calls'[c] # calls[c]
\* what a step of a call leaves alone: every handle, the connection, the other
\* calls and their streams; the counters only count
C26_FrameOfCall ==
  /\ handles' = handles
  /\ \A c \in CallIds :
       Acts(c) =>
         /\ connection' = connection
         /\ \A d \in CallIds \ {c} :
              calls'[d] = calls[d] /\ streams'[d] = streams[d]
         /\ \A t \in RequestTypes : requests_total'[t] >= requests_total[t]
         /\ \A l \in ErrorLabels : errors_total'[l] >= errors_total[l]
         /\ Started(c) => calls'[c].handle = calls[c].handle
\* the handle a call went through is as it was constructed, and while the
\* connection is up the stage a call awaits can succeed whatever the other
\* calls have returned
C26_NothingKept ==
  /\ \A h \in 1..Len(handles) :
       handles[h] = NewHandle(handles[1].peer_id, TheConnection)
  /\ \A c \in CallIds :
       /\ Started(c) => handles[calls[c].handle] = handles[1]
       /\ (InFlight(c) /\ connection = "up") => StageCanSucceed(c)
\* C26: rpc and push leave the handle as it was, on success and on every
\* failure: its peer_id and its connection are the same before and after every
\* step of a call; a call changes its own stream and the counters and nothing
\* else, so what a call can return does not depend on what earlier calls
\* returned.
C26_HandleUnchanged == []C26_NothingKept /\ [][C26_FrameOfCall]_vars
\* a call succeeded although an earlier call through the same handle had
\* returned an error, and the handle is as it was constructed
C26_Witness ==
  \E c, d \in CallIds :
    /\ Failed(d) /\ calls[d].result.kind = "Io"
    /\ StartedAfter(c, "Io") /\ Succeeded(c)
    /\ calls[c].handle = calls[d].handle
    /\ handles[calls[c].handle] = NewHandle("n2", TheConnection)

\* the components whose WASM hash is not the same in the two versions
Differing ==
  {t \in UpgradeableTypes : upgrade.current_version[t] # upgrade.next_version[t]}
UpgradeCalled == upgrade.pc # "idle"
UpgradeSucceeded == upgrade.pc = "done" /\ upgrade.outcome.kind = "Ok"
\* C27: get_upgrade_info returns Ok only when exactly one of the four WASM
\* hashes differs between the two versions; get_wasm is then requested once,
\* with the next version's hash of that component, and what is returned is that
\* component's canister id from the canister list with the WASM of the reply,
\* whose canister type is that component; when no hash differs the function
\* returns an InvalidProposal error and get_wasm is not called.
C27_ExactlyOneDiffers ==
  /\ upgrade.pc = "get_wasm" =>
       /\ Cardinality(Differing) = 1
       /\ Differing = {upgrade.canister_type}
       /\ upgrade.wasm_hash = upgrade.next_version[upgrade.canister_type]
       /\ upgrade.get_wasm_calls = 1
  /\ UpgradeSucceeded =>
       /\ Cardinality(Differing) = 1
       /\ \A t \in Differing :
            /\ upgrade.canister_type = t
            /\ upgrade.wasm_hash = upgrade.next_version[t]
            /\ upgrade.reply.is = "Wasm"
            /\ upgrade.reply.canister_type = t
            /\ upgrade.outcome.value = <<upgrade.sns_canisters[t], upgrade.reply.wasm>>
       /\ upgrade.get_wasm_calls = 1
  /\ (UpgradeCalled /\ Differing = {}) =>
       /\ upgrade.pc = "done"
       /\ upgrade.outcome.kind = "Err"
       /\ upgrade.outcome.error_type = ERROR_TYPE_INVALID_PROPOSAL
       /\ upgrade.get_wasm_calls = 0
\* only the ledger's hash differs and the ledger's canister id is returned with
\* the WASM of the reply
C27_Witness ==
  /\ UpgradeSucceeded
  /\ Differing = {"Ledger"}
  /\ upgrade.wasm_hash = upgrade.next_version["Ledger"]
  /\ upgrade.outcome.value = <<PrincipalOf("Ledger"), <<2>>>>
\* no hash differs: InvalidProposal, without a call of get_wasm
C27_WitnessNoDifference ==
  /\ UpgradeCalled /\ Differing = {}
  /\ upgrade.outcome.error_type = ERROR_TYPE_INVALID_PROPOSAL
  /\ upgrade.get_wasm_calls = 0

====
